---- MODULE Spec2Model ----
(***************************************************************************)
(* Input-value decoding and encoding of exact-size arrays [T; N] and of    *)
(* Box<T> (juniper/src/types/array.rs, juniper/src/types/box.rs).          *)
(*                                                                         *)
(* One behaviour is one call.  The element type T is generic in the code,  *)
(* so it is modelled as an arbitrary pair of functions: conv is            *)
(* T::try_from_input_value (it may succeed, fail or panic on each value)   *)
(* and enc is T::to_input_value.  When boxed is TRUE the call is made      *)
(* through Box<[T; N]>, otherwise directly on [T; N].                      *)
(***************************************************************************)
EXTENDS Integers, Sequences, FiniteSets, TLC

VARIABLES N, conv, enc, boxed, input, src, orig, pc, arr, init_len, no_drop,
          idx, converted, released, innerRes, result, boxAllocs

vars == <<N, conv, enc, boxed, input, src, orig, pc, arr, init_len, no_drop,
          idx, converted, released, innerRes, result, boxAllocs>>

\* Largest array size N explored.
MaxN == 3

\* Input lists are explored up to one element more than the largest N.
MaxLen == MaxN + 1

----------------------------------------------------------------------------
(* graphql::InputValue *)

Null == [tag |-> "Null"]

Scalar(s) == [tag |-> "Scalar", s |-> s]

Object(o) == [tag |-> "Object", o |-> o]

List(ls) == [tag |-> "List", items |-> ls]

\* Values that are neither Null nor a List; they also serve as list items
\* (the decode hands every item to the converter without inspecting it, and
\* reads only the `item` of a located list entry).
ItemValues == {Scalar("x"), Object("o")}

Lists == UNION {[1..n -> ItemValues] : n \in 0..MaxLen}

InputValues == {Null} \cup ItemValues \cup {List(ls) : ls \in Lists}

----------------------------------------------------------------------------
(* The element type T *)

Elems == {"a", "b"}

ElemErrors == {"e1", "e2"}

\* What one invocation of T::try_from_input_value can do.
Outcomes == {[k |-> "Ok", v |-> e] : e \in Elems}
              \cup {[k |-> "Err", e |-> e] : e \in ElemErrors}
              \cup {[k |-> "Panic"]}

\* An owned value of type T; id is the number of the converter invocation
\* that created it (0 for a value that already existed before the call).
Obj(id, v) == [id |-> id, val |-> v]

----------------------------------------------------------------------------
(* TryFromInputValueError and Result *)

IsNull == [e |-> "IsNull"]

WrongCount(actual, expected) ==
    [e |-> "WrongCount", actual |-> actual, expected |-> expected]

Item(e) == [e |-> "Item", item |-> e]

Ok(x) == [k |-> "Ok", val |-> x]

Err(e) == [k |-> "Err", err |-> e]

Panicked == [k |-> "Panic"]

NoResult == [k |-> "None"]

----------------------------------------------------------------------------
(* PartiallyInitializedArray *)

Uninit == [init |-> FALSE]

Slot(o) == [init |-> TRUE, obj |-> o]

\* Variant: relies on dropping the MaybeUninit slots, which releases nothing.
Drop_leak(a, len, nd) == << >>

\* Variant: releases the live prefix without looking at no_drop.
Drop_always(a, len, nd) ==
    [j \in 1..len |-> IF a[j].init THEN a[j].obj.id ELSE 0]

\* Drop for PartiallyInitializedArray: the ids of the elements it releases,
\* in order.  Dropping a slot that was never written is a release of
\* garbage, recorded as id 0.
Drop(a, len, nd) ==
    IF nd THEN << >>
    ELSE [j \in 1..len |-> IF a[j].init THEN a[j].obj.id ELSE 0]

\* mem::transmute_copy of the staging buffer into [T; N]; reading a slot
\* that was never written yields an arbitrary value.
ReadSlot(s) == IF s.init THEN {s.obj} ELSE {Obj(0, e) : e \in Elems}

TransmuteCopy(a) ==
    {c \in [1..N -> UNION {ReadSlot(a[j]) : j \in 1..N}] :
        \A j \in 1..N : c[j] \in ReadSlot(a[j])}

----------------------------------------------------------------------------
(* Box<T> *)

Box(x) == [box |-> x]

\* Variant: the error of the inner decode is replaced instead of passed on.
MapBox_err(r) ==
    IF r.k = "Ok" THEN Ok(Box(r.val))
    ELSE IF r.k = "Err" THEN Err(IsNull) ELSE r

\* Result::map(Box::new)
MapBox(r) == IF r.k = "Ok" THEN Ok(Box(r.val)) ELSE r

\* Variant: the elements are emitted last to first.
ArrToInputValue_rev(c) ==
    List([j \in 1..Len(c) |-> enc[c[Len(c) + 1 - j].val]])

\* <[T; N] as ToInputValue>::to_input_value
ArrToInputValue(c) == List([j \in 1..Len(c) |-> enc[c[j].val]])

\* <Box<T> as ToInputValue>::to_input_value
BoxToInputValue(b) == ArrToInputValue(b.box)

\* The end of a call: the array decode has produced r; through Box the
\* outcome is mapped into a new Box.
Return(r) ==
    /\ innerRes' = r
    /\ result' = IF boxed THEN MapBox(r) ELSE r
    /\ boxAllocs' = IF boxed /\ r.k = "Ok" THEN boxAllocs + 1 ELSE boxAllocs
    /\ pc' = "done"

----------------------------------------------------------------------------
Init ==
    /\ N \in 0..MaxN
    /\ conv \in [ItemValues -> Outcomes]
    /\ enc \in [Elems -> ItemValues]
    /\ boxed \in BOOLEAN
    /\ input \in InputValues
    /\ src = "given"
    /\ orig = << >>
    /\ pc = "idle"
    /\ arr = [j \in 1..N |-> Uninit]
    /\ init_len = 0
    /\ no_drop = FALSE
    /\ idx = 1
    /\ converted = << >>
    /\ released = << >>
    /\ innerRes = NoResult
    /\ result = NoResult
    /\ boxAllocs = 0

\* to_input_value of an existing array (or Box of an array); its output is
\* then the input of the decode.
ToInputValue ==
    /\ pc = "idle" /\ src = "given"
    /\ \E c \in [1..N -> Elems] :
         LET a == [j \in 1..N |-> Obj(0, c[j])] IN
         /\ orig' = a
         /\ input' = IF boxed THEN BoxToInputValue(Box(a)) ELSE ArrToInputValue(a)
    /\ src' = "encoded"
    /\ UNCHANGED <<N, conv, enc, boxed, pc, arr, init_len, no_drop, idx,
                   converted, released, innerRes, result, boxAllocs>>

\* try_from_implicit_null: not overridden for arrays, so the trait default
\* applies, which decodes an explicit Null.
TryFromImplicitNull ==
    /\ pc = "idle" /\ src = "given"
    /\ input' = Null
    /\ src' = "implicit"
    /\ UNCHANGED <<N, conv, enc, boxed, orig, pc, arr, init_len, no_drop, idx,
                   converted, released, innerRes, result, boxAllocs>>

\* Variant: the two counts of WrongCount are exchanged.
ListWrongCount_swapped ==
    /\ pc = "idle"
    /\ input.tag = "List"
    /\ Len(input.items) # N
    /\ Return(Err(WrongCount(N, Len(input.items))))
    /\ UNCHANGED <<N, conv, enc, boxed, input, src, orig, arr, init_len,
                   no_drop, idx, converted, released>>

\* match v { List(ls) if ls.len() != N => Err(WrongCount) }
ListWrongCount ==
    /\ pc = "idle"
    /\ input.tag = "List"
    /\ Len(input.items) # N
    /\ Return(Err(WrongCount(Len(input.items), N)))
    /\ UNCHANGED <<N, conv, enc, boxed, input, src, orig, arr, init_len,
                   no_drop, idx, converted, released>>

\* match v { List(ls) if N == 0 => Ok([]) }
ListEmpty ==
    /\ pc = "idle"
    /\ input.tag = "List"
    /\ Len(input.items) = N
    /\ N = 0
    /\ Return(Ok(<< >>))
    /\ UNCHANGED <<N, conv, enc, boxed, input, src, orig, arr, init_len,
                   no_drop, idx, converted, released>>

\* match v { List(ls) => let mut out = PartiallyInitializedArray {..} }
ListStart ==
    /\ pc = "idle"
    /\ input.tag = "List"
    /\ Len(input.items) = N
    /\ N # 0
    /\ arr' = [j \in 1..N |-> Uninit]
    /\ init_len' = 0
    /\ no_drop' = FALSE
    /\ idx' = 1
    /\ pc' = "loop"
    /\ UNCHANGED <<N, conv, enc, boxed, input, src, orig, converted, released,
                   innerRes, result, boxAllocs>>

\* Variant: the converted items fill the buffer from its far end.
LoopIter_rev ==
    /\ pc = "loop"
    /\ idx <= N
    /\ LET r == conv[input.items[idx]] IN
       /\ converted' = Append(converted, input.items[idx])
       /\ IF r.k = "Ok"
          THEN /\ arr' = [arr EXCEPT ![N + 1 - idx] = Slot(Obj(Len(converted) + 1, r.v))]
               /\ init_len' = init_len + 1
               /\ idx' = idx + 1
               /\ UNCHANGED <<released, innerRes, result, boxAllocs, pc>>
          ELSE /\ released' = released \o Drop(arr, init_len, no_drop)
               /\ Return(IF r.k = "Err" THEN Err(Item(r.e)) ELSE Panicked)
               /\ UNCHANGED <<arr, init_len, idx>>
    /\ UNCHANGED <<N, conv, enc, boxed, input, src, orig, no_drop>>

\* Variant: the buffer is a plain local without a Drop guard, so it is
\* cleaned up by hand on the error return only and not during an unwind.
LoopIter_nounwind ==
    /\ pc = "loop"
    /\ idx <= N
    /\ LET r == conv[input.items[idx]] IN
       /\ converted' = Append(converted, input.items[idx])
       /\ IF r.k = "Ok"
          THEN /\ arr' = [arr EXCEPT ![idx] = Slot(Obj(Len(converted) + 1, r.v))]
               /\ init_len' = init_len + 1
               /\ idx' = idx + 1
               /\ UNCHANGED <<released, innerRes, result, boxAllocs, pc>>
          ELSE /\ released' = IF r.k = "Err"
                              THEN released \o Drop(arr, init_len, no_drop)
                              ELSE released
               /\ Return(IF r.k = "Err" THEN Err(Item(r.e)) ELSE Panicked)
               /\ UNCHANGED <<arr, init_len, idx>>
    /\ UNCHANGED <<N, conv, enc, boxed, input, src, orig, no_drop>>

\* One iteration of `for elem in &mut out.arr[..]`: convert the next item;
\* on success store it and count it, on an error or a panic leave the
\* function, which drops `out`.
LoopIter ==
    /\ pc = "loop"
    /\ idx <= N
    /\ LET r == conv[input.items[idx]] IN
       /\ converted' = Append(converted, input.items[idx])
       /\ IF r.k = "Ok"
          THEN /\ arr' = [arr EXCEPT ![idx] = Slot(Obj(Len(converted) + 1, r.v))]
               /\ init_len' = init_len + 1
               /\ idx' = idx + 1
               /\ UNCHANGED <<released, innerRes, result, boxAllocs, pc>>
          ELSE /\ released' = released \o Drop(arr, init_len, no_drop)
               /\ Return(IF r.k = "Err" THEN Err(Item(r.e)) ELSE Panicked)
               /\ UNCHANGED <<arr, init_len, idx>>
    /\ UNCHANGED <<N, conv, enc, boxed, input, src, orig, no_drop>>

\* After the loop: out.no_drop = true; Ok(transmute_copy(&out.arr)); `out`
\* is dropped on return.
Finish ==
    /\ pc = "loop"
    /\ idx > N
    /\ no_drop' = TRUE
    /\ \E c \in TransmuteCopy(arr) : Return(Ok(c))
    /\ released' = released \o Drop(arr, init_len, TRUE)
    /\ UNCHANGED <<N, conv, enc, boxed, input, src, orig, arr, init_len, idx,
                   converted>>

\* Variant: Null is taken for a list without items.
NullArm_asEmpty ==
    /\ pc = "idle"
    /\ input.tag = "Null"
    /\ Return(IF N = 0 THEN Ok(<< >>) ELSE Err(WrongCount(0, N)))
    /\ UNCHANGED <<N, conv, enc, boxed, input, src, orig, arr, init_len,
                   no_drop, idx, converted, released>>

\* match v { Null => Err(IsNull) }
NullArm ==
    /\ pc = "idle"
    /\ input.tag = "Null"
    /\ Return(Err(IsNull))
    /\ UNCHANGED <<N, conv, enc, boxed, input, src, orig, arr, init_len,
                   no_drop, idx, converted, released>>

\* match v { other => T::try_from_input_value(other).map_err(Item)
\*                      .and_then(|e| if N == 1 { Ok([e]) } else { Err(WrongCount) }) }
OtherArm ==
    /\ pc = "idle"
    /\ input.tag \notin {"List", "Null"}
    /\ LET r == conv[input]
           e == Obj(Len(converted) + 1, r.v) IN
       /\ converted' = Append(converted, input)
       /\ IF r.k = "Ok"
          THEN IF N = 1
               THEN /\ Return(Ok(<<e>>))
                    /\ UNCHANGED released
               ELSE /\ Return(Err(WrongCount(1, N)))
                    /\ released' = Append(released, e.id)
          ELSE /\ Return(IF r.k = "Err" THEN Err(Item(r.e)) ELSE Panicked)
               /\ UNCHANGED released
    /\ UNCHANGED <<N, conv, enc, boxed, input, src, orig, arr, init_len,
                   no_drop, idx>>

Next ==
    \/ ToInputValue
    \/ TryFromImplicitNull
    \/ ListWrongCount
    \/ ListEmpty
    \/ ListStart
    \/ LoopIter
    \/ Finish
    \/ NullArm
    \/ OtherArm

Spec == Init /\ [][Next]_vars

----------------------------------------------------------------------------
(* Properties *)

Done == pc = "done"

IsList == input.tag = "List"

IsBare == input.tag \notin {"List", "Null"}

Count(seq, x) == Cardinality({j \in DOMAIN seq : seq[j] = x})

InitSlots == {j \in 1..N : arr[j].init}

\* The outcome of the converter on the j-th item of the input list.
ConvAt(j) == conv[input.items[j]]

\* 1-based position of the first item whose conversion is not a success,
\* 0 when every item converts.
FirstBad ==
    IF \A j \in 1..Len(input.items) : ConvAt(j).k = "Ok" THEN 0
    ELSE CHOOSE j \in 1..Len(input.items) :
           /\ ConvAt(j).k # "Ok"
           /\ \A i \in 1..(j - 1) : ConvAt(i).k = "Ok"

\* Exactly the elements created by the first n converter invocations have
\* been released, once each, and nothing else has.
ReleasedExactly(n) ==
    /\ Len(released) = n
    /\ \A id \in 1..n : Count(released, id) = 1

\* C1: decoding a List whose length L differs from N fails with
\* WrongCount{actual: L, expected: N} and the element converter has not
\* been invoked.
C1_WrongCountNoConversion ==
    (Done /\ IsList /\ Len(input.items) # N) =>
        /\ innerRes = [k |-> "Err",
                       err |-> [e |-> "WrongCount",
                                actual |-> Len(input.items),
                                expected |-> N]]
        /\ Len(converted) = 0

C1_Witness ==
    /\ Done /\ IsList /\ src = "given"
    /\ Len(input.items) = 0 /\ N = 2
    /\ innerRes.k = "Err"

\* C2: when the k-th item (0-indexed) of an N-length list is the first to
\* fail with an error, decode fails with Item of that error, the converter
\* has run exactly k+1 times on the items 0..k in order, and each of the k
\* elements converted before is released exactly once.
C2_FirstItemError ==
    (Done /\ IsList /\ Len(input.items) = N /\ FirstBad > 0
          /\ ConvAt(FirstBad).k = "Err") =>
        /\ innerRes = [k |-> "Err",
                       err |-> [e |-> "Item", item |-> ConvAt(FirstBad).e]]
        /\ converted = SubSeq(input.items, 1, FirstBad)
        /\ ReleasedExactly(FirstBad - 1)

C2_Witness ==
    /\ Done /\ IsList /\ Len(input.items) = N /\ N = 3
    /\ FirstBad = 2
    /\ ConvAt(2).k = "Err" /\ ConvAt(3).k = "Ok"
    /\ Len(converted) = 2
    /\ released = <<1>>

\* The outcome of decoding the one-item list holding v into [T; 1].
Singleton(v) ==
    IF conv[v].k = "Ok" THEN [k |-> "Ok", val |-> <<[id |-> 1, val |-> conv[v].v]>>]
    ELSE IF conv[v].k = "Err"
         THEN [k |-> "Err", err |-> [e |-> "Item", item |-> conv[v].e]]
         ELSE [k |-> "Panic"]

\* C3: for N = 1 a bare value (neither Null nor a List) decodes to the same
\* outcome as the one-item list holding it; for every other N the decode of
\* a bare value, when it returns, fails with WrongCount{actual: 1,
\* expected: N}.
C3_BareValue ==
    /\ (Done /\ N = 1 /\ IsList /\ Len(input.items) = 1) =>
           innerRes = Singleton(input.items[1])
    /\ (Done /\ N = 1 /\ IsBare) => innerRes = Singleton(input)
    /\ (Done /\ N # 1 /\ IsBare /\ innerRes.k # "Panic") =>
           innerRes = [k |-> "Err",
                       err |-> [e |-> "WrongCount", actual |-> 1, expected |-> N]]

\* C4: a call that ends in IsNull or WrongCount has not invoked the element
\* converter and has written no staging slot.
C4_ShapeErrorsFirst ==
    (Done /\ innerRes.k = "Err" /\ innerRes.err.e \in {"IsNull", "WrongCount"}) =>
        /\ Len(converted) = 0
        /\ InitSlots = {}

\* C5: a List of length N whose items all convert decodes to the array of
\* the converted items in the same order; for N = 0 no converter runs.
C5_AllConverted ==
    (Done /\ IsList /\ Len(input.items) = N /\ FirstBad = 0) =>
        /\ innerRes.k = "Ok"
        /\ Len(innerRes.val) = N
        /\ \A j \in 1..N : innerRes.val[j].val = ConvAt(j).v
        /\ converted = input.items
        /\ (N = 0 => Len(converted) = 0)

C5_Witness ==
    /\ Done /\ IsList /\ Len(input.items) = N /\ N = 3 /\ FirstBad = 0
    /\ innerRes.k = "Ok"
    /\ innerRes.val[1].val # innerRes.val[2].val
    /\ innerRes.val[2].val = innerRes.val[3].val

\* C6: decoding Null fails with IsNull for every N.
C6_NullIsNull ==
    (Done /\ input.tag = "Null") => innerRes = [k |-> "Err", err |-> [e |-> "IsNull"]]

C6_Witness ==
    /\ Done /\ input.tag = "Null" /\ src = "given"
    /\ N = 1
    /\ innerRes.k = "Err"

\* Decoding what T::to_input_value produced gives back an equal element.
ElemRoundTrips == \A e \in Elems : conv[enc[e]] = [k |-> "Ok", v |-> e]

\* C7: when the element type round-trips, decoding the to_input_value of an
\* array succeeds with an array equal to the original, element by element.
C7_RoundTrip ==
    (Done /\ src = "encoded" /\ ElemRoundTrips) =>
        /\ innerRes.k = "Ok"
        /\ Len(innerRes.val) = Len(orig)
        /\ \A j \in 1..Len(orig) : innerRes.val[j].val = orig[j].val

C7_Witness ==
    /\ Done /\ src = "encoded" /\ ElemRoundTrips
    /\ N = 3
    /\ orig[1].val # orig[3].val
    /\ innerRes.k = "Ok"

\* C8: Box is transparent: its to_input_value is the one of the wrapped
\* value, and a decode through Box (of a given value or of an implicit
\* null) is the inner outcome, with a success moved into one new Box and an
\* error or a panic passed through unchanged.
C8_BoxTransparent ==
    /\ (boxed /\ src = "encoded") => input = ArrToInputValue(orig)
    /\ (boxed /\ Done /\ innerRes.k = "Ok") =>
           /\ result = [k |-> "Ok", val |-> [box |-> innerRes.val]]
           /\ boxAllocs = 1
    /\ (boxed /\ Done /\ innerRes.k # "Ok") =>
           /\ result = innerRes
           /\ boxAllocs = 0

C8_Witness ==
    /\ boxed /\ Done /\ src = "encoded" /\ N = 2
    /\ innerRes.k = "Err" /\ innerRes.err.e = "Item"
    /\ result = innerRes

\* C9: the live count equals the number of written staging slots, which are
\* exactly the first init_len ones, and never exceeds N; no element is
\* released twice; and when all N items convert nothing is released and the
\* returned array holds the N staged elements, each once.
C9_Ownership ==
    /\ init_len = Cardinality(InitSlots)
    /\ InitSlots = 1..init_len
    /\ init_len <= N
    /\ \A j \in 1..Len(released) :
          /\ released[j] \in 1..Len(converted)
          /\ Count(released, released[j]) = 1
    /\ (Done /\ IsList /\ innerRes.k = "Ok") =>
          /\ released = << >>
          /\ \A j \in 1..N : innerRes.val[j] = [id |-> j, val |-> ConvAt(j).v]

C9_Witness ==
    /\ Done /\ IsList /\ N = 3 /\ innerRes.k = "Ok"
    /\ init_len = 3 /\ no_drop
    /\ released = << >>

\* C10: when the converter panics on the k-th item (0-indexed) of an
\* N-length list, no later item is converted, the call returns no array,
\* and each of the k staged elements is released exactly once.
C10_UnwindSafe ==
    (Done /\ IsList /\ Len(input.items) = N /\ FirstBad > 0
          /\ ConvAt(FirstBad).k = "Panic") =>
        /\ innerRes = [k |-> "Panic"]
        /\ result = [k |-> "Panic"]
        /\ converted = SubSeq(input.items, 1, FirstBad)
        /\ ReleasedExactly(FirstBad - 1)

C10_Witness ==
    /\ Done /\ IsList /\ Len(input.items) = N /\ N = 3
    /\ FirstBad = 3 /\ ConvAt(3).k = "Panic"
    /\ released = <<1, 2>>

====
